---------------------------- MODULE Spec2Model ----------------------------
(***************************************************************************)
(* Model of scripts/commit_classifier.py: the commit-message reviewer      *)
(* rewriting (replace_reviewers) and the patch-stack replay of             *)
(* CommitClassifier.apply_phab.                                            *)
(*                                                                         *)
(* Text is a sequence of one-character strings.  The marker character      *)
(* "\0" of the source is written "NUL" and a line feed is written "LF".    *)
(***************************************************************************)
EXTENDS Integers, Sequences, FiniteSets, TLC

(***************************************************************************)
(* Bounds of the model.                                                    *)
(***************************************************************************)
MaxLen == 5        \* longest commit message given to replace_reviewers
MaxStack == 5      \* longest patch stack returned by load_patches_stack

(***************************************************************************)
(* Character classes of the regular expressions, restricted to the         *)
(* characters the model uses.                                              *)
(***************************************************************************)
NUL == "NUL"
LF == "LF"

\* \s of the re module, and the characters str.strip() removes
SpaceChars == {" ", LF}
\* IRC_NICK = [a-zA-Z0-9\-\_]
NickChars == {"a", "b", "c", "r", "s", "u", "i", "x", "-", "_", "0", "1", "2"}
\* \w, the word characters that decide \b
WordChars == {"a", "b", "c", "r", "s", "u", "i", "x", "_", "0", "1", "2"}
\* the character class of LIST = [;,\/\\]\s*
ListChars == {";", ",", "/", "\\"}
\* the "before r" delimiter class [\s\(\.\[;,] of REVIEWERS_RE
DelimChars == SpaceChars \cup {"(", ".", "[", ";", ","}
\* the class [a-z0-9\.\-] of the lookahead of REVIEWERS_RE
FlagChars == {"a", "b", "c", "r", "s", "u", "i", "x", "0", "1", "2", ".", "-"}
\* [=?]
MarkChars == {"=", "?"}

At(s, i) == IF i >= 1 /\ i <= Len(s) THEN s[i] ELSE "END"

\* s[i..] starts with the text t
StartsWith(s, i, t) == \A k \in 1..Len(t) : At(s, i + k - 1) = t[k]

(***************************************************************************)
(* R_SPECIFIER = \br[=?]                                                   *)
(***************************************************************************)
RSpecifierAt(s, i) ==
    /\ At(s, i) = "r"
    /\ At(s, i + 1) \in MarkChars
    /\ At(s, i - 1) \notin WordChars

\* R_SPECIFIER_RE.search(s)
R_SPECIFIER_RE_search(s) == \E i \in 1..Len(s) : RSpecifierAt(s, i)

\* R_SPECIFIER_RE.match(g): the pattern matches at the start of g
R_SPECIFIER_RE_match(g) == RSpecifierAt(g, 1)

(***************************************************************************)
(* SPECIFIER = (?:r|a|sr|rs|ui-r)[=?] : the length of the specifier at     *)
(* position i of s, 0 when there is none.                                  *)
(***************************************************************************)
SpecifierNames == {<<"r">>, <<"a">>, <<"s", "r">>, <<"r", "s">>,
                   <<"u", "i", "-", "r">>}

SPECIFIER(s, i) ==
    LET ok == {n \in SpecifierNames :
                  StartsWith(s, i, n) /\ At(s, i + Len(n)) \in MarkChars}
    IN  IF ok = {} THEN 0 ELSE Len(CHOOSE n \in ok : TRUE) + 1

(***************************************************************************)
(* The reviewer list of REVIEWERS_RE.  Every operator returns the          *)
(* position just after what it matched.                                    *)
(***************************************************************************)
RECURSIVE RunEnd(_, _, _)
\* greedy run of characters of class cls starting at i
RunEnd(s, i, cls) == IF At(s, i) \in cls THEN RunEnd(s, i + 1, cls) ELSE i

\* #?IRC_NICK!? at i; 0 when it does not match
IRC_NICK(s, i) ==
    LET j == IF At(s, i) = "#" THEN i + 1 ELSE i
        e == RunEnd(s, j, NickChars)
    IN  IF e = j THEN 0
        ELSE IF At(s, e) = "!" THEN e + 1 ELSE e

\* (?![a-z0-9\.\-]+[=?]) holds at i
NoFlagAhead(s, i) ==
    LET e == RunEnd(s, i, FlagChars)
    IN  ~(e > i /\ At(s, e) \in MarkChars)

\* LIST = [;,\/\\]\s* at i; 0 when it does not match
LIST(s, i) == IF At(s, i) \in ListChars THEN RunEnd(s, i + 1, SpaceChars) ELSE 0

RECURSIVE MoreReviewers(_, _)
\* (?: LIST (?!flag) #?IRC_NICK!? )* at i
MoreReviewers(s, i) ==
    LET l == LIST(s, i)
        e == IF l = 0 \/ ~NoFlagAhead(s, l) THEN 0 ELSE IRC_NICK(s, l)
    IN  IF e = 0 THEN i ELSE MoreReviewers(s, e)

(***************************************************************************)
(* REVIEWERS_RE at position i: the position after the match, 0 when the    *)
(* pattern does not match at i.  Group 1 is s[i], group 2 the specifier.   *)
(***************************************************************************)
REVIEWERS_RE(s, i) ==
    LET n == SPECIFIER(s, i + 1)
        g == i + 1 + n
        t == IRC_NICK(s, g)
    IN  IF At(s, i) \notin DelimChars \/ n = 0 THEN 0
        ELSE IF t = 0 THEN g ELSE MoreReviewers(s, t)

RECURSIVE replace_first_reviewer(_, _, _, _)
\* re.sub(REVIEWERS_RE, replace_first_reviewer, s) from position i on;
\* first is d["first"]
replace_first_reviewer(s, i, first, reviewers_str) ==
    IF i > Len(s) THEN <<>>
    ELSE LET e == REVIEWERS_RE(s, i)
         IN  IF e = 0
               THEN <<s[i]>> \o replace_first_reviewer(s, i + 1, first, reviewers_str)
             ELSE IF R_SPECIFIER_RE_match(SubSeq(s, i + 1, i + SPECIFIER(s, i + 1)))
               THEN IF first
                      THEN <<s[i]>> \o reviewers_str
                             \o replace_first_reviewer(s, e, FALSE, reviewers_str)
                      ELSE <<NUL>> \o replace_first_reviewer(s, e, FALSE, reviewers_str)
             ELSE SubSeq(s, i, e - 1)
                    \o replace_first_reviewer(s, e, first, reviewers_str)

RECURSIVE RemoveListMarker(_, _)
\* re.sub(LIST + "\0", "", s) from position i on
RemoveListMarker(s, i) ==
    IF i > Len(s) THEN <<>>
    ELSE LET l == LIST(s, i)
         IN  IF l # 0 /\ At(s, l) = NUL
               THEN RemoveListMarker(s, l + 1)
               ELSE <<s[i]>> \o RemoveListMarker(s, i + 1)

\* re.sub("\0", "", s)
RemoveMarker(s) == SelectSeq(s, LAMBDA c : c # NUL)

RECURSIVE lstrip(_)
lstrip(s) == IF s # <<>> /\ Head(s) \in SpaceChars THEN lstrip(Tail(s)) ELSE s

RECURSIVE rstrip(_)
rstrip(s) ==
    IF s # <<>> /\ s[Len(s)] \in SpaceChars
      THEN rstrip(SubSeq(s, 1, Len(s) - 1)) ELSE s

\* str.strip()
strip(s) == rstrip(lstrip(s))

(***************************************************************************)
(* str.splitlines() and "\n".join(), for the line feed                     *)
(***************************************************************************)
RECURSIVE LineEnd(_, _)
\* position of the first line feed of s at or after i, Len(s) + 1 if none
LineEnd(s, i) == IF i > Len(s) \/ s[i] = LF THEN i ELSE LineEnd(s, i + 1)

RECURSIVE splitlines(_)
\* a line feed that ends the text does not open a further, empty line
splitlines(s) ==
    IF s = <<>> THEN <<>>
    ELSE LET e == LineEnd(s, 1)
         IN  <<SubSeq(s, 1, e - 1)>> \o splitlines(SubSeq(s, e + 1, Len(s)))

RECURSIVE join(_, _)
\* sep.join(parts)
join(sep, parts) ==
    IF parts = <<>> THEN <<>>
    ELSE IF Len(parts) = 1 THEN parts[1]
    ELSE parts[1] \o sep \o join(sep, Tail(parts))

(***************************************************************************)
(* replace_reviewers(commit_description, reviewers)                        *)
(***************************************************************************)
\* "r=" + ",".join(reviewers), or "" without reviewers
ReviewersStr(reviewers) ==
    IF reviewers = <<>> THEN <<>> ELSE <<"r", "=">> \o join(<<",">>, reviewers)

\* RewriteSummary that appends the reviewers without the separating space
RewriteSummary_NoSpace(commit_summary, reviewers_str) ==
    IF ~R_SPECIFIER_RE_search(commit_summary)
      THEN commit_summary \o reviewers_str
      ELSE RemoveMarker(RemoveListMarker(
               replace_first_reviewer(commit_summary, 1, TRUE, reviewers_str), 1))

\* the summary line after the rewriting, before it is stripped
RewriteSummary(commit_summary, reviewers_str) ==
    IF ~R_SPECIFIER_RE_search(commit_summary)
      THEN commit_summary \o <<" ">> \o reviewers_str
      ELSE RemoveMarker(RemoveListMarker(
               replace_first_reviewer(commit_summary, 1, TRUE, reviewers_str), 1))

replace_reviewers(commit_description, reviewers) ==
    LET reviewers_str == ReviewersStr(reviewers)
        lines == splitlines(commit_description)
        commit_summary == RewriteSummary(lines[1], reviewers_str)
        body == join(<<LF>>, Tail(lines))
    IN  IF commit_description = <<>> THEN reviewers_str
        ELSE IF body = <<>> THEN strip(commit_summary)
        ELSE strip(commit_summary) \o <<LF>> \o body

(***************************************************************************)
(* State.  The first group is one use of replace_reviewers and a second    *)
(* use on its own result; the second group is one run of apply_phab.       *)
(***************************************************************************)
VARIABLES
    commit_description,  \* the message given to replace_reviewers
    reviewers,           \* the reviewers given to it, in rendering order
    rewritten,           \* replace_reviewers(commit_description, reviewers)
    rewritten2,          \* replace_reviewers(rewritten, reviewers)
    rpc                  \* "input", "once", "twice"

rvars == <<commit_description, reviewers, rewritten, rewritten2, rpc>>

\* characters of the messages that are enumerated
MsgChars == {"a", "r", "=", " ", ",", LF}

\* longer messages: "x r=a,b a=c" and "x ui-r=a"
ExampleMessages ==
    {<<"x", " ", "r", "=", "a", ",", "b", " ", "a", "=", "c">>,
     <<"x", " ", "u", "i", "-", "r", "=", "a">>}

Messages == UNION {[1..n -> MsgChars] : n \in 0..MaxLen} \cup ExampleMessages

\* reviewer lists that are enumerated
ReviewerLists == {<<>>, <<<<"b">>>>, <<<<"b">>, <<"a">>>>}

(***************************************************************************)
(* One run of CommitClassifier.apply_phab(hg, diff_id).                    *)
(*                                                                         *)
(* A patch is named by its position in the stack (1 is the bottom).  The   *)
(* calls made on the two repositories and the metadata fetches of the      *)
(* review service are recorded in calls, in the order they are made, with  *)
(* ok = FALSE for a call that raised.                                      *)
(***************************************************************************)
VARIABLES
    stack,          \* what load_patches_stack returned, bottom first
    git_repo_dir,   \* TRUE when a git repository is configured
    pc,             \* the statement apply_phab is at
    needed_stack,   \* the patches to apply, as positions in stack
    idx,            \* the position of the walk, then of the replay loop
    hg_base,        \* the revision the Mercurial repository is updated to
    warned,         \* logger.warning("Missing base revision ...") was called
    cur,            \* author and reviewers built for the current patch
    calls,          \* the calls made so far
    hg_commits,     \* patches imported into the Mercurial repository
    git_commits,    \* patches committed to the git repository
    outcome         \* "running", "returned" or the exception raised

pvars == <<stack, git_repo_dir, pc, needed_stack, idx, hg_base, warned, cur,
           calls, hg_commits, git_commits, outcome>>

vars == <<rvars, pvars>>

None == "None"

\* revisions the Mercurial repository knows (hg.identify succeeds)
HgRevisions == {"B"}

\* base revisions a patch may declare: none, a known one, an unknown one
BaseRevisions == {None, "B", "X"}

Stacks == UNION {[1..n -> [base_revision : BaseRevisions]] : n \in 0..MaxStack}

\* PHIDs of authors and reviewers: two users, a project, another kind
PHIDs == {"PHID-USER-1", "PHID-USER-2", "PHID-PROJ-1", "PHID-APPS-1"}

IsUser(phid) == phid \in {"PHID-USER-1", "PHID-USER-2"}
IsProject(phid) == phid = "PHID-PROJ-1"

\* authorPHID of a revision
AuthorPHIDs == {"PHID-USER-1", "PHID-PROJ-1", "PHID-APPS-1"}

\* the reviewers attachment of a revision
ReviewerPHIDs ==
    {<<>>, <<"PHID-USER-1">>, <<"PHID-PROJ-1">>, <<"PHID-APPS-1">>,
     <<"PHID-USER-1", "PHID-USER-1">>, <<"PHID-USER-1", "PHID-USER-2">>,
     <<"PHID-PROJ-1", "PHID-USER-1">>, <<"PHID-USER-1", "PHID-APPS-1">>}

\* revision["fields"]["title"] and revision["fields"]["summary"]
Titles == {<<"x">>, <<"x", " ", "r", "=", "a">>}
Summaries == {<<"y">>}

\* the arguments of a commit: nothing was sent yet
NotSent == [sent |-> FALSE, user |-> <<None, None>>, message |-> <<>>]

NoCur == [patch |-> 0, at |-> 0, author_name |-> None, author_email |-> None,
          reviewers |-> {}, lookups |-> 0, unsupported |-> FALSE,
          title |-> <<>>, summary |-> <<>>, rs |-> <<>>, message |-> <<>>,
          hg_sent |-> NotSent, git_sent |-> NotSent]

Call(op, arg, ok) == [op |-> op, arg |-> arg, ok |-> ok]

has_revision(revision) ==
    IF revision = None \/ revision = "" THEN FALSE
    ELSE revision \in HgRevisions \cup {"tip"}

PInit ==
    /\ stack \in Stacks
    /\ git_repo_dir \in BOOLEAN
    /\ pc = "start"
    /\ needed_stack = <<>>
    /\ idx = 0
    /\ hg_base = None
    /\ warned = FALSE
    /\ cur = NoCur
    /\ calls = <<>>
    /\ hg_commits = <<>>
    /\ git_commits = <<>>
    /\ outcome = "running"

\* an exception leaves apply_phab
Raise(e) == pc' = "done" /\ outcome' = e

\* LoadStack without the assertion: the loops find nothing to do
LoadStack_NoAssert ==
    /\ pc = "start"
    /\ calls' = Append(calls, Call("load_patches_stack", 0, TRUE))
    /\ IF Len(stack) > 0
         THEN pc' = "walk" /\ idx' = Len(stack) /\ UNCHANGED outcome
         ELSE pc' = "done" /\ outcome' = "returned" /\ UNCHANGED idx
    /\ UNCHANGED <<rvars, stack, git_repo_dir, needed_stack, hg_base, warned,
                   cur, hg_commits, git_commits>>

\* stack = load_patches_stack(diff_id); assert len(stack) > 0
LoadStack ==
    /\ pc = "start"
    /\ calls' = Append(calls, Call("load_patches_stack", 0, TRUE))
    /\ IF Len(stack) > 0
         THEN pc' = "walk" /\ idx' = Len(stack) /\ UNCHANGED outcome
         ELSE Raise("AssertionError") /\ UNCHANGED idx
    /\ UNCHANGED <<rvars, stack, git_repo_dir, needed_stack, hg_base, warned,
                   cur, hg_commits, git_commits>>

\* Walk that never stops at a known base
Walk_NoBreak ==
    /\ pc = "walk"
    /\ needed_stack' = <<idx>> \o needed_stack
    /\ IF idx = 1
         THEN pc' = "fetch" /\ UNCHANGED idx
         ELSE idx' = idx - 1 /\ UNCHANGED pc
    /\ UNCHANGED <<rvars, stack, git_repo_dir, hg_base, warned, cur, calls,
                   hg_commits, git_commits, outcome>>

\* Walk with the base checked before the patch is inserted
Walk_CheckFirst ==
    /\ pc = "walk"
    /\ IF has_revision(stack[idx].base_revision)
         THEN pc' = "fetch" /\ UNCHANGED <<idx, needed_stack>>
         ELSE /\ needed_stack' = <<idx>> \o needed_stack
              /\ IF idx = 1 THEN pc' = "fetch" /\ UNCHANGED idx
                            ELSE idx' = idx - 1 /\ UNCHANGED pc
    /\ UNCHANGED <<rvars, stack, git_repo_dir, hg_base, warned, cur, calls,
                   hg_commits, git_commits, outcome>>

\* one iteration of "for patch in reversed(stack)"
Walk ==
    /\ pc = "walk"
    /\ needed_stack' = <<idx>> \o needed_stack
    /\ IF has_revision(stack[idx].base_revision) \/ idx = 1
         THEN pc' = "fetch" /\ UNCHANGED idx
         ELSE idx' = idx - 1 /\ UNCHANGED pc
    /\ UNCHANGED <<rvars, stack, git_repo_dir, hg_base, warned, cur, calls,
                   hg_commits, git_commits, outcome>>

\* LoadRevisions with the update of the repository moved before the fetches
LoadRevisions_AfterUpdate ==
    /\ pc = "fetch"
    /\ IF needed_stack = <<>>
         THEN /\ pc' = "done"
              /\ outcome' = "returned"
              /\ UNCHANGED calls
         ELSE /\ calls' = calls \o <<Call("hg.update", "tip", TRUE),
                                     Call("search_diffs", 0, TRUE)>>
                            \o [i \in 1..Len(stack) |-> Call("load_revision", i, TRUE)]
              /\ pc' = "update"
              /\ UNCHANGED outcome
    /\ UNCHANGED <<rvars, stack, git_repo_dir, needed_stack, idx, hg_base,
                   warned, cur, hg_commits, git_commits>>

\* "if not needed_stack: return", then search_diffs and one load_revision
\* for every diff of the stack
LoadRevisions ==
    /\ pc = "fetch"
    /\ IF needed_stack = <<>>
         THEN /\ pc' = "done"
              /\ outcome' = "returned"
              /\ UNCHANGED calls
         ELSE /\ calls' = calls \o <<Call("search_diffs", 0, TRUE)>>
                            \o [i \in 1..Len(stack) |-> Call("load_revision", i, TRUE)]
              /\ pc' = "update"
              /\ UNCHANGED outcome
    /\ UNCHANGED <<rvars, stack, git_repo_dir, needed_stack, idx, hg_base,
                   warned, cur, hg_commits, git_commits>>

\* UpdateBase without the fallback to "tip"
UpdateBase_NoFallback ==
    /\ pc = "update"
    /\ LET base == stack[needed_stack[1]].base_revision
       IN  /\ warned' = ~has_revision(base)
           /\ hg_base' = base
           /\ IF base # None /\ base # ""
                THEN \E ok \in BOOLEAN :
                       /\ calls' = Append(calls, Call("hg.update", base, ok))
                       /\ IF ok
                            THEN /\ pc' = IF git_repo_dir THEN "git_base" ELSE "synth"
                                 /\ UNCHANGED outcome
                            ELSE Raise("CommandError")
                ELSE pc' = "synth" /\ UNCHANGED <<calls, outcome>>
    /\ idx' = 1
    /\ UNCHANGED <<rvars, stack, git_repo_dir, needed_stack, cur, hg_commits,
                   git_commits>>

\* "Update repo to base revision": hg.update(rev=hg_base, clean=True)
UpdateBase ==
    /\ pc = "update"
    /\ LET base0 == stack[needed_stack[1]].base_revision
           known == has_revision(base0)
           base == IF known THEN base0 ELSE "tip"
       IN  /\ warned' = ~known
           /\ hg_base' = base
           /\ IF base # None /\ base # ""
                THEN \E ok \in BOOLEAN :
                       /\ calls' = Append(calls, Call("hg.update", base, ok))
                       /\ IF ok
                            THEN /\ pc' = IF git_repo_dir THEN "git_base" ELSE "synth"
                                 /\ UNCHANGED outcome
                            ELSE Raise("CommandError")
                ELSE pc' = "synth" /\ UNCHANGED <<calls, outcome>>
    /\ idx' = 1
    /\ UNCHANGED <<rvars, stack, git_repo_dir, needed_stack, cur, hg_commits,
                   git_commits>>

\* vcs_map.mercurial_to_git(hg_base) and "git checkout -b analysis_branch",
\* inside try/except Exception
GitBase ==
    /\ pc = "git_base"
    /\ \E mapped \in BOOLEAN, checked_out \in BOOLEAN :
         calls' = IF mapped
                    THEN calls \o <<Call("mercurial_to_git", hg_base, TRUE),
                                    Call("git.checkout", hg_base, checked_out)>>
                    ELSE Append(calls, Call("mercurial_to_git", hg_base, FALSE))
    /\ pc' = "synth"
    /\ UNCHANGED <<rvars, stack, git_repo_dir, needed_stack, idx, hg_base,
                   warned, cur, hg_commits, git_commits, outcome>>

\* load_user that skips every PHID that is not a user
load_user_SkipOthers(phid) ==
    IF IsUser(phid)
      THEN [result |-> "user",
            username |-> IF phid = "PHID-USER-1" THEN "u1" ELSE "u2",
            realName |-> IF phid = "PHID-USER-1" THEN "User One" ELSE "User Two"]
    ELSE [result |-> "none", username |-> None, realName |-> None]

\* load_user(phid) of apply_phab
load_user(phid) ==
    IF IsUser(phid)
      THEN [result |-> "user",
            username |-> IF phid = "PHID-USER-1" THEN "u1" ELSE "u2",
            realName |-> IF phid = "PHID-USER-1" THEN "User One" ELSE "User Two"]
    ELSE IF IsProject(phid)
      THEN [result |-> "none", username |-> None, realName |-> None]
    ELSE [result |-> "raise", username |-> None, realName |-> None]

\* number of load_user calls that reach the review service among phids
Lookups(phids) == Cardinality({j \in 1..Len(phids) : IsUser(phids[j])})

\* a username as text
UserChars(username) == IF username = "u1" THEN <<"u", "1">> ELSE <<"u", "2">>

\* the orders in which iterating over the set S of reviewers may give them
Orders(S) ==
    {o \in [1..Cardinality(S) -> S] : \A j, k \in 1..Cardinality(S) :
                                         o[j] = o[k] => j = k}

\* Message that rewrites the message also without reviewers
Message_AlwaysRewrite(title, summary, order) ==
    replace_reviewers(title \o <<LF, LF>> \o summary,
                      [j \in 1..Len(order) |-> UserChars(order[j])])

\* message = "{}\n\n{}".format(title, summary), rewritten by
\* replace_reviewers "if len(reviewers)"; order is the reviewers as the
\* iteration over the set gives them
Message(title, summary, order) ==
    IF Len(order) # 0
      THEN replace_reviewers(title \o <<LF, LF>> \o summary,
                             [j \in 1..Len(order) |-> UserChars(order[j])])
      ELSE title \o <<LF, LF>> \o summary

\* the statements of the replay loop before hg.import_: message, author and
\* reviewers of needed_stack[idx].  commits is "patch.commits gives an
\* author name"; the load_user calls made are counted in cur.lookups and
\* cur.at is the number of calls made before them; cur.unsupported tells
\* that load_user was given a PHID that is neither a user nor a project
Synthesize ==
    /\ pc = "synth"
    /\ \E commits \in BOOLEAN, authorPHID \in AuthorPHIDs, rs \in ReviewerPHIDs,
          title \in Titles, summary \in Summaries :
         LET author == load_user(authorPHID)
             bad == {j \in 1..Len(rs) : load_user(rs[j]).result = "raise"}
             first_bad == CHOOSE j \in bad : \A k \in bad : j <= k
             other == {j \in 1..Len(rs) : ~IsUser(rs[j]) /\ ~IsProject(rs[j])}
             n_author == IF ~commits /\ IsUser(authorPHID) THEN 1 ELSE 0
             users == {load_user(rs[j]).username :
                         j \in {k \in 1..Len(rs) : IsUser(rs[k])}}
             this == [NoCur EXCEPT !.patch = needed_stack[idx], !.at = Len(calls)]
         IN  IF ~commits /\ author.result = "raise"
               THEN Raise("Exception") /\ cur' = [this EXCEPT !.unsupported = TRUE]
             ELSE IF ~commits /\ author.result = "none"
               THEN /\ Raise("TypeError")
                    /\ cur' = [this EXCEPT
                         !.unsupported = ~IsUser(authorPHID) /\ ~IsProject(authorPHID)]
             ELSE IF bad # {}
               THEN /\ Raise("Exception")
                    /\ cur' = [this EXCEPT
                         !.unsupported = TRUE,
                         !.lookups = n_author + Lookups(SubSeq(rs, 1, first_bad - 1))]
             ELSE /\ pc' = "import"
                  /\ \E order \in Orders(users) :
                       cur' = [this EXCEPT
                         !.author_name = IF commits THEN "Commit Author"
                                                    ELSE author.realName,
                         !.author_email = IF commits THEN "commit@mail"
                                                     ELSE author.username,
                         !.reviewers = users,
                         !.lookups = n_author + Lookups(rs),
                         !.unsupported = other # {},
                         !.title = title,
                         !.summary = summary,
                         !.rs = rs,
                         !.message = Message(title, summary, order)]
                  /\ UNCHANGED outcome
    /\ UNCHANGED <<rvars, stack, git_repo_dir, needed_stack, idx, hg_base,
                   warned, calls, hg_commits, git_commits>>

\* the next iteration of the replay loop; what the last one built for its
\* patch is not used again
NextPatch == pc' = "synth" /\ idx' = idx + 1 /\ cur' = NoCur /\ UNCHANGED outcome

\* what hg.import_ and "git commit" are given for the current patch
Sent == [sent |-> TRUE, user |-> <<cur.author_name, cur.author_email>>,
         message |-> cur.message]

\* Import that skips a patch whose import failed
Import_SkipFailed ==
    /\ pc = "import"
    /\ \E ok \in BOOLEAN :
         /\ calls' = Append(calls, Call("hg.import_", needed_stack[idx], ok))
         /\ hg_commits' = IF ok THEN Append(hg_commits, needed_stack[idx])
                                ELSE hg_commits
         /\ IF ok /\ git_repo_dir
              THEN pc' = "git_apply" /\ UNCHANGED <<idx, outcome>>
            ELSE IF idx < Len(needed_stack)
              THEN NextPatch
            ELSE pc' = "done" /\ outcome' = "returned" /\ UNCHANGED idx
    /\ pc' # "synth" => cur' = [cur EXCEPT !.hg_sent = Sent]
    /\ UNCHANGED <<rvars, stack, git_repo_dir, needed_stack, hg_base, warned,
                   git_commits>>

\* Import that goes on to the next patch without the git repository
Import_NoMirror ==
    /\ pc = "import"
    /\ \E ok \in BOOLEAN :
         /\ calls' = Append(calls, Call("hg.import_", needed_stack[idx], ok))
         /\ IF ok
              THEN /\ hg_commits' = Append(hg_commits, needed_stack[idx])
                   /\ IF idx < Len(needed_stack)
                        THEN NextPatch
                        ELSE pc' = "done" /\ outcome' = "returned" /\ UNCHANGED idx
              ELSE Raise("CommandError") /\ UNCHANGED <<hg_commits, idx>>
    /\ pc' # "synth" => cur' = [cur EXCEPT !.hg_sent = Sent]
    /\ UNCHANGED <<rvars, stack, git_repo_dir, needed_stack, hg_base, warned,
                   git_commits>>

\* hg.import_(patches=..., message=..., user=...)
Import ==
    /\ pc = "import"
    /\ \E ok \in BOOLEAN :
         /\ calls' = Append(calls, Call("hg.import_", needed_stack[idx], ok))
         /\ IF ok
              THEN /\ hg_commits' = Append(hg_commits, needed_stack[idx])
                   /\ IF git_repo_dir
                        THEN pc' = "git_apply" /\ UNCHANGED <<idx, outcome>>
                      ELSE IF idx < Len(needed_stack)
                        THEN NextPatch
                      ELSE pc' = "done" /\ outcome' = "returned" /\ UNCHANGED idx
              ELSE Raise("CommandError") /\ UNCHANGED <<hg_commits, idx>>
    /\ pc' # "synth" => cur' = [cur EXCEPT !.hg_sent = Sent]
    /\ UNCHANGED <<rvars, stack, git_repo_dir, needed_stack, hg_base, warned,
                   git_commits>>

\* subprocess.run(["git", "apply", "--3way", temp_file], check=True)
GitApply ==
    /\ pc = "git_apply"
    /\ \E ok \in BOOLEAN :
         /\ calls' = Append(calls, Call("git.apply", needed_stack[idx], ok))
         /\ IF ok THEN pc' = "git_commit" /\ UNCHANGED outcome
                  ELSE Raise("CalledProcessError")
    /\ UNCHANGED <<rvars, stack, git_repo_dir, needed_stack, idx, hg_base,
                   warned, cur, hg_commits, git_commits>>

\* subprocess.run(["git", ..., "commit", "-am", message], check=True)
GitCommit ==
    /\ pc = "git_commit"
    /\ \E ok \in BOOLEAN :
         /\ calls' = Append(calls, Call("git.commit", needed_stack[idx], ok))
         /\ IF ~ok
              THEN Raise("CalledProcessError") /\ UNCHANGED <<git_commits, idx>>
            ELSE /\ git_commits' = Append(git_commits, needed_stack[idx])
                 /\ IF idx < Len(needed_stack)
                      THEN NextPatch
                      ELSE pc' = "done" /\ outcome' = "returned" /\ UNCHANGED idx
    /\ pc' # "synth" => cur' = [cur EXCEPT !.git_sent = Sent]
    /\ UNCHANGED <<rvars, stack, git_repo_dir, needed_stack, hg_base, warned,
                   hg_commits>>

PNext ==
    \/ LoadStack
    \/ Walk
    \/ LoadRevisions
    \/ UpdateBase
    \/ GitBase
    \/ Synthesize
    \/ Import
    \/ GitApply
    \/ GitCommit

\* replace_reviewers is not running
RIdle ==
    /\ commit_description = <<>>
    /\ reviewers = <<>>
    /\ rewritten = <<>>
    /\ rewritten2 = <<>>
    /\ rpc = "idle"

\* apply_phab is not running
PIdle ==
    /\ stack = <<>>
    /\ git_repo_dir = FALSE
    /\ pc = "idle"
    /\ needed_stack = <<>>
    /\ idx = 0
    /\ hg_base = None
    /\ warned = FALSE
    /\ cur = NoCur
    /\ calls = <<>>
    /\ hg_commits = <<>>
    /\ git_commits = <<>>
    /\ outcome = "idle"

RInit ==
    /\ commit_description \in Messages
    /\ reviewers \in ReviewerLists
    /\ rewritten = <<>>
    /\ rewritten2 = <<>>
    /\ rpc = "input"

Rewrite ==
    /\ rpc = "input"
    /\ rewritten' = replace_reviewers(commit_description, reviewers)
    /\ rpc' = "once"
    /\ UNCHANGED <<commit_description, reviewers, rewritten2, pvars>>

RewriteAgain ==
    /\ rpc = "once"
    /\ rewritten2' = replace_reviewers(rewritten, reviewers)
    /\ rpc' = "twice"
    /\ UNCHANGED <<commit_description, reviewers, rewritten, pvars>>

RNext == Rewrite \/ RewriteAgain

\* the runs of apply_phab
Init == PInit /\ RIdle
Next == PNext
Spec == Init /\ [][Next]_vars

\* the uses of replace_reviewers
InitRewrite == RInit /\ PIdle
NextRewrite == RNext
SpecRewrite == InitRewrite /\ [][NextRewrite]_vars

(***************************************************************************)
(* Properties of apply_phab, checked under Spec.                           *)
(***************************************************************************)
\* the walk over the stack is over
Walked == pc \in {"fetch", "update", "git_base", "synth", "import",
                  "git_apply", "git_commit", "done"} /\ Len(stack) > 0

\* patch i declares a base the Mercurial repository knows
Known(i) == has_revision(stack[i].base_revision)

\* the topmost patch with a known base, 0 when there is none
TopKnown ==
    IF \E i \in 1..Len(stack) : Known(i)
      THEN CHOOSE i \in 1..Len(stack) :
             Known(i) /\ \A j \in (i + 1)..Len(stack) : ~Known(j)
      ELSE 0

\* the patches a..b in stack order
Patches(a, b) == [k \in 1..(b - a + 1) |-> a + k - 1]

IsPrefix(s, t) == Len(s) <= Len(t) /\ SubSeq(t, 1, Len(s)) = s

Made(ops) == {i \in 1..Len(calls) : calls[i].op \in ops}
Failed(ops) == {i \in Made(ops) : ~calls[i].ok}

HgOps == {"hg.update", "hg.import_"}
GitOps == {"git.checkout", "git.apply", "git.commit"}
FetchOps == {"load_patches_stack", "search_diffs", "load_revision"}

\* C1 as stated: in a stack of 5 patches whose third patch (index 2 from 0)
\* is the topmost one with a known base, the needed list is the fourth and
\* fifth patch.
C1_Original ==
    (Walked /\ Len(stack) = 5 /\ TopKnown = 3) => needed_stack = <<4, 5>>

\* C1 amended: the needed list is the topmost patch with a known base and
\* the patches above it, in stack order (indices 2, 3, 4 in the example).
C1_NeededFromKnownBase ==
    (Walked /\ TopKnown > 0) => needed_stack = Patches(TopKnown, Len(stack))

C1_Witness ==
    /\ pc = "update"
    /\ Len(stack) = 5
    /\ TopKnown = 3
    /\ needed_stack = <<3, 4, 5>>

\* C2 as stated: with a known base on the top patch the needed list is
\* empty, the run returns and nothing is updated or imported.
C2_Original ==
    (Walked /\ Known(Len(stack))) =>
        /\ needed_stack = <<>>
        /\ Made(HgOps \cup GitOps) = {}
        /\ hg_commits = <<>>
        /\ pc = "done" => outcome = "returned"

\* C2 amended: with a known base on the top patch the needed list is the top
\* patch alone; the repository is updated to that base without a warning,
\* no other patch is imported, and a run that returns has imported it.
C2_TopKnownAppliesTop ==
    (Walked /\ Known(Len(stack))) =>
        /\ needed_stack = <<Len(stack)>>
        /\ IsPrefix(hg_commits, <<Len(stack)>>)
        /\ IsPrefix(git_commits, hg_commits)
        /\ \A i \in Made({"hg.update"}) :
             calls[i].arg = stack[Len(stack)].base_revision
        /\ ~warned
        /\ outcome = "returned" => hg_commits = <<Len(stack)>>

C2_Witness ==
    /\ Len(stack) >= 2
    /\ Known(Len(stack))
    /\ outcome = "returned"
    /\ hg_commits = <<Len(stack)>>
    /\ Made({"hg.update"}) # {}

\* C3 as stated: when "git apply" or "git commit" fails on a patch of a
\* needed list of 3 patches, the run still imports all 3 patches into the
\* Mercurial repository and returns.
C3_Original ==
    (pc = "done" /\ Len(needed_stack) = 3
        /\ Failed({"git.apply", "git.commit"}) # {}) =>
        /\ hg_commits = needed_stack
        /\ outcome = "returned"

\* C4 as stated: after mercurial_to_git or the git checkout failed, no
\* "git apply" and no "git commit" is attempted, and a run in which no other
\* call fails imports every needed patch.
C4_Original ==
    Failed({"mercurial_to_git", "git.checkout"}) # {} =>
        /\ Made({"git.apply", "git.commit"}) = {}
        /\ outcome # "CalledProcessError"

\* C5: when no patch of the stack declares a known base, the needed list is
\* the whole stack in stack order, the warning is logged, the repository is
\* updated to "tip" and the replay goes on over every patch: a run that
\* returns has imported the whole stack.
C5_FallbackToTip ==
    (Walked /\ TopKnown = 0) =>
        /\ needed_stack = Patches(1, Len(stack))
        /\ pc \notin {"fetch", "update"} =>
             /\ warned
             /\ hg_base = "tip"
             /\ Made({"hg.update"}) # {}
             /\ \A i \in Made({"hg.update"}) : calls[i].arg = "tip"
        /\ (pc \in {"git_base", "synth", "import"} /\ idx = 1) =>
             outcome = "running"
        /\ IsPrefix(hg_commits, needed_stack)
        /\ outcome = "returned" => hg_commits = Patches(1, Len(stack))

C5_Witness ==
    /\ Len(stack) >= 3
    /\ TopKnown = 0
    /\ \E i \in 1..Len(stack) : stack[i].base_revision = None
    /\ warned
    /\ outcome = "returned"
    /\ hg_commits = Patches(1, Len(stack))

\* C6: a failed hg.update or hg.import_ is the last call of the run: the run
\* ends with the error, the call is not repeated, no later patch reaches
\* either repository, and the patches imported before it stay imported.
C6_PrimaryFailureFatal ==
    \A i \in Failed(HgOps) :
        /\ i = Len(calls)
        /\ pc = "done"
        /\ outcome = "CommandError"
        /\ hg_commits = SubSeq(needed_stack, 1, idx - 1)
        /\ IsPrefix(git_commits, hg_commits)
        /\ calls[i].op = "hg.import_" =>
             /\ calls[i].arg = needed_stack[idx]
             /\ \A j \in Made({"hg.import_"}) : j < i => calls[j].arg # calls[i].arg

C6_Witness ==
    /\ Len(needed_stack) >= 3
    /\ \E i \in Failed({"hg.import_"}) : calls[i].arg = needed_stack[3]
    /\ hg_commits = SubSeq(needed_stack, 1, 2)
    /\ git_commits = hg_commits
    /\ outcome = "CommandError"

\* C7 as stated: no metadata fetch and no load_user call is made after the
\* first hg.update or hg.import_.
C7_Original ==
    /\ \A i \in Made(HgOps) : \A j \in Made(FetchOps) : j < i
    /\ cur.lookups > 0 => \A i \in Made(HgOps) : i > cur.at

\* C7 amended: the metadata fetches are all made before the first call on a
\* repository; the load_user calls of a patch are made in the replay loop,
\* after the successful hg.update and before the hg.import_ of that patch.
C7_FetchesBeforeReplay ==
    /\ \A i \in Made(HgOps \cup GitOps) : \A j \in Made(FetchOps) : j < i
    /\ cur.lookups > 0 =>
         /\ \E i \in Made({"hg.update"}) : i <= cur.at /\ calls[i].ok
         /\ \A i \in Made({"hg.import_"}) : calls[i].arg = cur.patch => i > cur.at

C7_Witness ==
    /\ cur.lookups > 0
    /\ idx >= 2
    /\ cur.patch = needed_stack[idx]
    /\ \E i \in Made({"hg.import_"}) : calls[i].arg = cur.patch /\ calls[i].ok

(***************************************************************************)
(* Properties of replace_reviewers, checked under SpecRewrite.             *)
(***************************************************************************)
\* the first line of a message
SummaryOf(m) == SubSeq(m, 1, LineEnd(m, 1) - 1)

\* what follows the first line feed of a message
AfterSummary(m) == SubSeq(m, LineEnd(m, 1) + 1, Len(m))

\* the body of a message: what follows the first line feed, without the
\* line feed that ends the message
BodyOf(m) ==
    LET b == AfterSummary(m)
    IN  IF b # <<>> /\ b[Len(b)] = LF THEN SubSeq(b, 1, Len(b) - 1) ELSE b

\* "r=" and the reviewers joined by ",", nothing without reviewers
Annotation(rs) ==
    IF rs = <<>> THEN <<>> ELSE <<"r", "=">> \o join(<<",">>, rs)

\* the positions of the bare r= and r? specifiers of a line
Occurrences(s) == {i \in 1..Len(s) : RSpecifierAt(s, i)}

\* the annotation that starts at position i of s: the specifier and the
\* reviewer list that follows it
AnnotationAt(s, i) ==
    LET t == IRC_NICK(s, i + 2)
    IN  SubSeq(s, i, (IF t = 0 THEN i + 2 ELSE MoreReviewers(s, t)) - 1)

\* s without the blanks at its start
WithoutLeadingSpace(s) ==
    LET rest == {i \in 1..Len(s) : s[i] # " "}
    IN  IF rest = {} THEN <<>>
        ELSE SubSeq(s, CHOOSE i \in rest : \A j \in rest : i <= j, Len(s))

\* s without the blanks at its start and at its end
WithoutOuterSpace(s) ==
    LET rest == {i \in 1..Len(s) : s[i] # " "}
    IN  IF rest = {} THEN <<>>
        ELSE SubSeq(s, CHOOSE i \in rest : \A j \in rest : i <= j,
                       CHOOSE i \in rest : \A j \in rest : i >= j)

\* C8 as stated: the summary line of the result has at most one bare
\* r=/r? occurrence; with reviewers that occurrence is "r=" followed by
\* exactly the reviewers joined by commas, without reviewers there is none.
C8_Original ==
    rpc \in {"once", "twice"} =>
        LET s == SummaryOf(rewritten)
        IN  /\ Cardinality(Occurrences(s)) <= 1
            /\ reviewers # <<>> =>
                 \E i \in Occurrences(s) : AnnotationAt(s, i) = Annotation(reviewers)
            /\ reviewers = <<>> => Occurrences(s) = {}

\* C9 as stated: rewriting the result again with the same reviewers gives
\* the same result.
C9_Original == rpc = "twice" => rewritten2 = rewritten

\* C10 as stated: a message whose summary line has no bare r=/r? occurrence
\* becomes the summary line, one space, the annotation, and the unchanged
\* rest of the message.
C10_Original ==
    (rpc \in {"once", "twice"}
        /\ ~R_SPECIFIER_RE_search(SummaryOf(commit_description))) =>
        rewritten = SummaryOf(commit_description) \o <<" ">> \o Annotation(reviewers)
                      \o SubSeq(commit_description,
                                LineEnd(commit_description, 1),
                                Len(commit_description))

\* C10 amended: for a message whose summary line has no bare r=/r?
\* occurrence, the summary line of the result is, with reviewers, the
\* summary without its leading blanks, then one space unless nothing is
\* left of the summary, then the annotation; without reviewers it is the
\* summary without leading and trailing blanks.  The body follows after one
\* line feed, unchanged but for the line feed that ends the message; a
\* message with an empty body gets no line feed.
C10_AppendsAnnotation ==
    (rpc \in {"once", "twice"}
        /\ ~R_SPECIFIER_RE_search(SummaryOf(commit_description))) =>
        LET summary == SummaryOf(commit_description)
            kept == WithoutLeadingSpace(summary)
            first == IF reviewers = <<>> THEN WithoutOuterSpace(summary)
                     ELSE IF kept = <<>> THEN Annotation(reviewers)
                     ELSE kept \o <<" ">> \o Annotation(reviewers)
            body == BodyOf(commit_description)
        IN  rewritten = first \o (IF body = <<>> THEN <<>> ELSE <<LF>> \o body)

C10_Witness ==
    /\ rpc = "once"
    /\ reviewers = <<<<"b">>, <<"a">>>>
    /\ commit_description = <<" ", "a", LF, "r", "=">>
    /\ rewritten = <<"a", " ", "r", "=", "b", ",", "a", LF, "r", "=">>

RECURSIVE OtherAnnotations(_, _)
\* the annotations of s from position i on whose specifier is not the bare
\* r= or r?, each as its text without the delimiter in front of it
OtherAnnotations(s, i) ==
    IF i > Len(s) THEN {}
    ELSE LET e == REVIEWERS_RE(s, i)
         IN  IF e = 0 THEN OtherAnnotations(s, i + 1)
             ELSE (IF RSpecifierAt(s, i + 1) THEN {} ELSE {SubSeq(s, i + 1, e - 1)})
                    \cup OtherAnnotations(s, e)

\* the text m occurs in t
Contains(t, m) == \E k \in 1..(Len(t) + 1) : SubSeq(t, k, k + Len(m) - 1) = m

\* C11 as stated: the annotations with another specifier than the bare r
\* are found unchanged in the result, "x r=a,b a=c" with reviewer b becomes
\* "x r=b a=c", and the summary of a message that has such other
\* annotations carries "r=" and the reviewers afterwards.
C11_Original ==
    rpc \in {"once", "twice"} =>
        LET s == SummaryOf(commit_description)
            t == SummaryOf(rewritten)
        IN  /\ \A m \in OtherAnnotations(s, 1) : Contains(t, m)
            /\ (commit_description = <<"x", " ", "r", "=", "a", ",", "b", " ", "a", "=", "c">>
                  /\ reviewers = <<<<"b">>>>) =>
                 rewritten = <<"x", " ", "r", "=", "b", " ", "a", "=", "c">>
            /\ (reviewers # <<>> /\ OtherAnnotations(s, 1) # {}) =>
                 \E i \in Occurrences(t) : AnnotationAt(t, i) = Annotation(reviewers)

(***************************************************************************)
(* Properties of the replay loop of apply_phab, checked under Spec.        *)
(***************************************************************************)
\* the reviewers of the current patch that are users, by their usernames
ReviewerUsers ==
    {IF cur.rs[j] = "PHID-USER-1" THEN "u1" ELSE "u2" :
       j \in {k \in 1..Len(cur.rs) : IsUser(cur.rs[k])}}

\* title + "\n\n" + summary of the current patch
Raw == cur.title \o <<LF, LF>> \o cur.summary

\* rewrite(Raw, S), for the orders in which the set S may be listed
Rewrites(S) ==
    {replace_reviewers(Raw, [j \in 1..Len(order) |-> UserChars(order[j])]) :
       order \in Orders(S)}

\* the messages given to hg.import_ and to "git commit" for the current patch
Written ==
    (IF cur.hg_sent.sent THEN {cur.hg_sent.message} ELSE {})
      \cup (IF cur.git_sent.sent THEN {cur.git_sent.message} ELSE {})

\* C12 as stated: the message written for a replayed patch is
\* rewrite(title + "\n\n" + summary, S) with S the set of usernames of the
\* reviewers that are users, also when S is empty.
C12_Original == \A m \in Written : m \in Rewrites(ReviewerUsers)

\* C12 amended: with S not empty the message written is
\* rewrite(title + "\n\n" + summary, S); with S empty it is
\* title + "\n\n" + summary as it stands, "r=" annotations included.
C12_MessageRewritten ==
    \A m \in Written :
       IF ReviewerUsers # {} THEN m \in Rewrites(ReviewerUsers) ELSE m = Raw

C12_Witness ==
    /\ cur.rs = <<"PHID-PROJ-1", "PHID-USER-1">>
    /\ cur.title = <<"x", " ", "r", "=", "a">>
    /\ cur.git_sent.sent
    /\ Written = {<<"x", " ", "r", "=", "u", "1", LF, LF, "y">>}

\* the author names and emails given to hg.import_ and to "git commit"
Committers ==
    (IF cur.hg_sent.sent THEN {cur.hg_sent.user} ELSE {})
      \cup (IF cur.git_sent.sent THEN {cur.git_sent.user} ELSE {})

\* C13: when load_user is given a PHID that is neither a user nor a project
\* for patch k of the needed list, the run ends with an exception, exactly
\* the patches before k are committed and nothing is called any more; and
\* no commit is made with None as author name or email.
C13_UnsupportedAborts ==
    /\ cur.unsupported =>
         /\ pc = "done" /\ outcome = "Exception"
         /\ cur.patch = needed_stack[idx]
         /\ hg_commits = SubSeq(needed_stack, 1, idx - 1)
         /\ git_commits = IF git_repo_dir THEN hg_commits ELSE <<>>
         /\ Len(calls) = cur.at
         /\ Committers = {}
    /\ \A u \in Committers : u[1] # None /\ u[2] # None

C13_Witness ==
    /\ cur.unsupported
    /\ cur.lookups > 0
    /\ git_repo_dir
    /\ idx = 2 /\ Len(needed_stack) >= 3
    /\ Len(git_commits) = 1
    /\ outcome = "Exception"

\* C14: with no patch in the stack apply_phab ends with the assertion error
\* and makes no call on the Mercurial or the git repository.
C14_EmptyStackFatal ==
    (Len(stack) = 0 /\ pc # "start") =>
        /\ pc = "done" /\ outcome = "AssertionError"
        /\ Made(HgOps \cup GitOps \cup {"mercurial_to_git"}) = {}
        /\ hg_commits = <<>> /\ git_commits = <<>>

C14_Witness ==
    /\ Len(stack) = 0
    /\ git_repo_dir
    /\ outcome = "AssertionError"
    /\ Made(FetchOps) = {1}

\* the patches the calls of op were made for, in the order of the calls
RECURSIVE ArgsOf(_, _)
ArgsOf(op, n) ==
    IF n = 0 THEN <<>>
    ELSE IF calls[n].op = op THEN Append(ArgsOf(op, n - 1), calls[n].arg)
    ELSE ArgsOf(op, n - 1)

\* C15: hg.update is called at most once, and successfully before every
\* hg.import_; hg.import_ is called for the patches of the needed list in
\* order, once each; with a git repository, "git commit" of a patch comes
\* after the hg.import_ of that patch and before the hg.import_ of the next
\* one, with the same author and message, and the git commits are the hg
\* commits but possibly the last one.
C15_OrderedLockstep ==
    /\ Cardinality(Made({"hg.update"})) <= 1
    /\ \A i \in Made({"hg.import_"}) :
          \E u \in Made({"hg.update"}) : u < i /\ calls[u].ok
    /\ IsPrefix(ArgsOf("hg.import_", Len(calls)), needed_stack)
    /\ IsPrefix(hg_commits, ArgsOf("hg.import_", Len(calls)))
    /\ IsPrefix(ArgsOf("git.commit", Len(calls)), hg_commits)
    /\ \A g \in Made({"git.commit"}) : \A i \in Made({"hg.import_"}) :
          /\ calls[i].arg = calls[g].arg => i < g /\ calls[i].ok
          /\ calls[i].arg > calls[g].arg => g < i /\ calls[g].ok
    /\ cur.git_sent.sent => cur.hg_sent.sent /\ cur.git_sent = cur.hg_sent
    /\ IsPrefix(git_commits, hg_commits)
    /\ git_repo_dir => Len(hg_commits) - Len(git_commits) \in {0, 1}

C15_Witness ==
    /\ git_repo_dir
    /\ outcome = "returned"
    /\ Len(needed_stack) >= 3
    /\ hg_commits = needed_stack
    /\ git_commits = needed_stack
    /\ cur.git_sent.sent
    /\ cur.git_sent.message = <<"x", " ", "r", "=", "u", "2", ",", "u", "1", LF, LF, "y">>

=============================================================================
